---- MODULE Spec2Model ----
(***************************************************************************)
(* Fallback-driven speech-synthesis dispatch (src/src/tts_engine.py) and   *)
(* the audio assembly pipeline (src/src/audio_processor.py) of             *)
(* suomen-mestari, as state machines.                                      *)
(*                                                                         *)
(* SpecDispatch : TTSEngineManager construction and generate_with_fallback *)
(* SpecAssemble : AudioProcessor._combine_translation_pair and             *)
(*                AudioProcessor._combine_multiple_pairs                   *)
(* SpecPipeline : TTSProcessor.process_translation_file (src/src/main.py)  *)
(*                with AudioProcessor.process_translation_batch            *)
(* SpecEngine   : generate_speech and get_default_voice of the four        *)
(*                backends (src/src/engines)                               *)
(* SpecBatch    : AudioProcessor.process_translation_batch called on its   *)
(*                own                                                      *)
(* SpecItem     : TranslationItem (src/src/translation_parser.py)          *)
(* SpecExport   : AudioProcessor._save_audio and the decoded result        *)
(***************************************************************************)
EXTENDS Integers, Sequences, FiniteSets, TLC

VARIABLES
    \* ---- TTSEngineManager ----
    default_engine,     \* config["general"]["default_engine"] ("" when unset)
    fallback_order,     \* config["general"]["fallback_order"]
    engine_env,         \* per engine: what construction meets at startup
    init_idx,           \* position of _initialize_engines in ENGINE_CLASSES
    engines,            \* keys of self.engines
    available_engines,  \* self.available_engines
    pc,                 \* "off" | "init" | "idle" | "trying" | "returned" | "raised"
    preferred_engine,   \* argument of the running generate_with_fallback call
    engine_order,       \* local engine_order of the running call
    idx,                \* position of the for loop in engine_order
    attempts,           \* generate_speech invocations of the running call
    result,             \* return value of the call
    \* ---- AudioProcessor ----
    timing_config,      \* config["timing"], in microseconds
    between_languages_ms,
    between_items_ms,
    apc,                \* "off" | "idle" | "combining" | "returned"
    audio_pairs,        \* argument of _combine_multiple_pairs
    pair_log,           \* per iteration: what _load_audio met, and add_item_silence
    pair_idx,           \* enumerate index i of the loop (1-based)
    combined,           \* local combined of _combine_multiple_pairs
    pair_results,       \* pair_audio of each iteration so far
    batch_result,       \* return value of _combine_multiple_pairs
    pair_call,          \* the direct _combine_translation_pair call, if the last call was one
    \* ---- TTSProcessor.process_translation_file ----
    rpc,                \* "off" | "idle" | "synth" | "batch" | "exit" | "returned" | "raised"
    translations,       \* per item, its language fields in insertion order
    keep_individual,    \* argument keep_individual
    timestamp,          \* datetime.now() formatted to the second
    item_idx,           \* position of the item loop (1-based; i = item_idx - 1)
    lang_idx,           \* position of the language loop (1-based)
    audio_paths,        \* local audio_paths of the running item
    success_all,        \* local success_all of the running item
    run_audio_pairs,    \* local audio_pairs of the run
    synth_log,          \* generate_with_fallback calls of the run and their results
    tmp_files,          \* files in the run's temporary directory
    out_files,          \* per output path (one per timestamp): what the file holds
    out_before,         \* out_files when the run started
    run_log,            \* what process_translation_batch did in the run
    run_result,         \* return value of process_translation_file
    \* ---- TTSEngine backends ----
    e_pc,               \* "off" | "idle" | "returned"
    e_call,             \* the last generate_speech call: backend, voice, what it met
    e_outcome,          \* "none" | "true" | "false" | "raise"
    e_synth,            \* whether the call invoked the backend's synthesis
    e_files,            \* files left by the call
    e_query,            \* the last get_default_voice call and its result
    \* ---- TranslationItem ----
    t_pc,               \* "off" | "idle" | "done"
    t_data,             \* the keyword arguments: the field values, in order
    t_item,             \* the constructed item, if any
    t_raised,           \* whether the constructor raised
    \* ---- AudioProcessor._save_audio and the decoder ----
    x_pc,               \* "off" | "idle" | "combined" | "saved" | "decoded"
    x_quality,          \* config["quality"]: sample_rate, channels
    x_clips,            \* frame rate and channel count of each input clip
    x_track,            \* frame rate and channel count of the combined track
    x_file,             \* frame rate and channel count of the exported file
    x_decoded           \* frame rate and channel count of the decoded file

dvars == <<default_engine, fallback_order, engine_env, init_idx, engines,
           available_engines, pc, preferred_engine, engine_order, idx,
           attempts, result>>
avars == <<timing_config, between_languages_ms, between_items_ms, apc,
           audio_pairs, pair_log, pair_idx, combined, pair_results,
           batch_result, pair_call>>
pvars == <<rpc, translations, keep_individual, timestamp, item_idx, lang_idx,
           audio_paths, success_all, run_audio_pairs, synth_log, tmp_files,
           out_files, out_before, run_log, run_result>>
evars == <<e_pc, e_call, e_outcome, e_synth, e_files, e_query>>
tvars == <<t_pc, t_data, t_item, t_raised>>
xvars == <<x_pc, x_quality, x_clips, x_track, x_file, x_decoded>>
vars == <<dvars, avars, pvars, evars, tvars, xvars>>

-----------------------------------------------------------------------------
(* Bounds of the model *)

MaxFallback == 2

MaxPairs == 3

MaxItems == 2

MaxVoices == 2

MaxFields == 3

MaxText == 2

MaxClips == 2

-----------------------------------------------------------------------------
(* The subsystems that a specification leaves out stay as constructed *)

\* The two output paths a run can pick: the file name ends with the start
\* time to the second, so two runs get the same path or different ones
Timestamps == {"t1", "t2"}

NoRunLog ==
    [batch_called |-> FALSE, statuses |-> <<>>, combine_ok |-> FALSE,
     save_called |-> FALSE, save_outcome |-> "none", save_result |-> "none",
     batch_success |-> "none", unlinked |-> {}]

\* process_translation_file is not running
PipelineLocals ==
    /\ translations = <<>>
    /\ keep_individual = FALSE
    /\ timestamp = "t1"
    /\ item_idx = 1
    /\ lang_idx = 1
    /\ audio_paths = <<>>
    /\ success_all = TRUE
    /\ run_audio_pairs = <<>>
    /\ synth_log = <<>>
    /\ tmp_files = {}
    /\ out_files = [t \in Timestamps |-> "absent"]
    /\ out_before = [t \in Timestamps |-> "absent"]
    /\ run_log = NoRunLog
    /\ run_result = FALSE

PipelineOff == rpc = "off" /\ PipelineLocals

NoCatalog == [error |-> FALSE, entries |-> <<>>]

NoEnv ==
    [configured |-> "", catalog |-> NoCatalog, mkdir |-> TRUE, model |-> TRUE,
     synth |-> "ok", convert |-> "ok", dest_wav |-> FALSE]

NoCall == [engine |-> "", voice |-> "", language |-> "", env |-> NoEnv]

NoQuery ==
    [engine |-> "", configured |-> "", language |-> "", catalog |-> NoCatalog,
     raised |-> FALSE, voices |-> <<>>, returned |-> ""]

EngineLocals ==
    /\ e_call = NoCall
    /\ e_outcome = "none"
    /\ e_synth = FALSE
    /\ e_files = {}
    /\ e_query = NoQuery

\* No backend is in use
EngineOff == e_pc = "off" /\ EngineLocals

NoItem == [some |-> FALSE, fields |-> <<>>]

\* No TranslationItem is being constructed
ItemOff ==
    /\ t_pc = "off"
    /\ t_data = <<>>
    /\ t_item = NoItem
    /\ t_raised = FALSE

\* frame rate and channel count of audio that is not there
NoParams == [frame_rate |-> 0, channels |-> 0]

ExportLocals ==
    /\ x_track = NoParams
    /\ x_file = NoParams
    /\ x_decoded = NoParams

\* No export is under way
ExportOff ==
    /\ x_pc = "off"
    /\ x_quality = NoParams
    /\ x_clips = <<>>
    /\ ExportLocals

-----------------------------------------------------------------------------
(* Sequences *)

RECURSIVE SeqRange(_)
SeqRange(s) == IF s = <<>> THEN {} ELSE {Head(s)} \cup SeqRange(Tail(s))

SeqsUpTo(S, n) == UNION {[1..k -> S] : k \in 0..n}

-----------------------------------------------------------------------------
(* TTSEngineManager *)

ENGINE_CLASSES == <<"edge-tts", "gtts", "piper", "coqui">>

EngineNames == SeqRange(ENGINE_CLASSES)

\* An unset name (None or the empty string: both are falsy)
NoName == ""

\* What engine_class(engine_config) and engine.is_available() can meet.
\* EdgeTTSEngine and GTTSEngine return True unconditionally; PiperEngine and
\* CoquiEngine return False when their library is missing; PiperEngine's
\* constructor expands a user path and may raise.
EnvStatuses(engine_name) ==
    CASE engine_name = "edge-tts" -> {"disabled", "ok"}
      [] engine_name = "gtts"     -> {"disabled", "ok"}
      [] engine_name = "piper"    -> {"disabled", "ctor_raises", "unavailable", "ok"}
      [] engine_name = "coqui"    -> {"disabled", "unavailable", "ok"}

\* engine_config.get("enabled", True)
Enabled(st) == st # "disabled"

\* engine_class(engine_config) returns without raising
Constructs(st) == st # "ctor_raises"

\* engine.is_available()
ReportsAvailable(st) == st = "ok"

\* One iteration of the for loop of _initialize_engines
InitializeEngine ==
    /\ pc = "init"
    /\ init_idx <= Len(ENGINE_CLASSES)
    /\ LET engine_name == ENGINE_CLASSES[init_idx] IN
       \E st \in EnvStatuses(engine_name) :
          /\ engine_env' = [engine_env EXCEPT ![engine_name] = st]
          /\ IF ~Enabled(st)
               THEN UNCHANGED <<engines, available_engines>>
               ELSE IF ~Constructs(st)
                 THEN UNCHANGED <<engines, available_engines>>
                 ELSE IF ReportsAvailable(st)
                   THEN /\ engines' = engines \cup {engine_name}
                        /\ available_engines' = Append(available_engines, engine_name)
                   ELSE UNCHANGED <<engines, available_engines>>
    /\ init_idx' = init_idx + 1
    /\ pc' = IF init_idx = Len(ENGINE_CLASSES) THEN "idle" ELSE "init"
    /\ UNCHANGED <<default_engine, fallback_order, preferred_engine,
                   engine_order, idx, attempts, result>>
    /\ UNCHANGED <<avars, pvars, evars, tvars, xvars>>

\* for engine in xs: if engine not in acc: acc.append(engine)
RECURSIVE AppendMissing(_, _)
AppendMissing(acc, xs) ==
    IF xs = <<>> THEN acc
    ELSE AppendMissing(IF Head(xs) \in SeqRange(acc) THEN acc
                       ELSE Append(acc, Head(xs)), Tail(xs))

\* Faulty variant: the available engines outside the fallback order are left out
_get_fallback_engines_no_rest ==
    LET IsAvailable(e) == e \in SeqRange(available_engines)
    IN  SelectSeq(fallback_order, IsAvailable)

_get_fallback_engines ==
    LET IsAvailable(e) == e \in SeqRange(available_engines)
        available_fallbacks == SelectSeq(fallback_order, IsAvailable)
    IN  AppendMissing(available_fallbacks, available_engines)

\* Faulty variant: the default is appended without the membership test
WithDefaultAlways(order) ==
    IF default_engine # NoName THEN Append(order, default_engine) ELSE order

\* if default_engine and default_engine not in engine_order: append
WithDefault(order) ==
    IF default_engine # NoName /\ default_engine \notin SeqRange(order)
    THEN Append(order, default_engine) ELSE order

\* The engine order built by generate_with_fallback
BuildEngineOrder(preferred) ==
    LET first == IF preferred # NoName /\ preferred \in SeqRange(available_engines)
                 THEN <<preferred>> ELSE <<>>
    IN  AppendMissing(WithDefault(first), _get_fallback_engines)

\* generate_with_fallback is called: the engine order is built
CallGenerate ==
    /\ pc \in {"idle", "returned"}
    /\ \E preferred \in EngineNames \cup {NoName} :
          /\ preferred_engine' = preferred
          /\ engine_order' = BuildEngineOrder(preferred)
    /\ idx' = 1
    /\ attempts' = <<>>
    /\ result' = FALSE
    /\ pc' = "trying"
    /\ UNCHANGED <<default_engine, fallback_order, engine_env, init_idx,
                   engines, available_engines>>
    /\ UNCHANGED <<avars, pvars, evars, tvars, xvars>>

\* What generate_speech of a backend can do
Outcomes == {"true", "false", "raise"}

\* Faulty variant: the registry test of the loop is missing
NotSkippedEver(engine_name) == FALSE

\* if engine_name not in self.engines: continue
Skipped(engine_name) == engine_name \notin engines

\* Faulty variant: the loop goes on after a success
AfterAttemptNoStop(outcome) ==
    CASE outcome = "true"  -> "continue"
      [] outcome = "false" -> "continue"
      [] outcome = "raise" -> "continue"

\* Faulty variant: no except clause, the exception leaves the call
AfterAttemptNoExcept(outcome) ==
    CASE outcome = "true"  -> "return_true"
      [] outcome = "false" -> "continue"
      [] outcome = "raise" -> "propagate"

\* The try block around engine.generate_speech: a true result returns, a false
\* one falls through, an exception is caught and logged
AfterAttempt(outcome) ==
    CASE outcome = "true"  -> "return_true"
      [] outcome = "false" -> "continue"
      [] outcome = "raise" -> "continue"

\* One iteration of the for loop over engine_order, or its end
TryEngine ==
    /\ pc = "trying"
    /\ IF idx > Len(engine_order)
         THEN /\ pc' = "returned"
              /\ result' = FALSE
              /\ UNCHANGED <<idx, attempts>>
         ELSE LET engine_name == engine_order[idx] IN
              IF Skipped(engine_name)
                THEN /\ idx' = idx + 1
                     /\ UNCHANGED <<pc, result, attempts>>
                ELSE \E outcome \in Outcomes :
                        /\ attempts' = Append(attempts,
                               [engine |-> engine_name, outcome |-> outcome])
                        /\ LET next == AfterAttempt(outcome) IN
                           /\ pc' = CASE next = "return_true" -> "returned"
                                      [] next = "continue"    -> "trying"
                                      [] next = "propagate"   -> "raised"
                           /\ result' = (next = "return_true")
                           /\ idx' = IF next = "continue" THEN idx + 1 ELSE idx
    /\ UNCHANGED <<default_engine, fallback_order, engine_env, init_idx,
                   engines, available_engines, preferred_engine, engine_order>>
    /\ UNCHANGED <<avars, pvars, evars, tvars, xvars>>

\* The AudioProcessor is not running
AudioInit ==
    /\ timing_config = [between_languages |-> 1500000, between_items |-> 500000]
    /\ between_languages_ms = 1500
    /\ between_items_ms = 500
    /\ apc = "off"
    /\ audio_pairs = <<>>
    /\ pair_log = <<>>
    /\ pair_idx = 1
    /\ combined = <<>>
    /\ pair_results = <<>>
    /\ batch_result = [some |-> FALSE, audio |-> <<>>]
    /\ pair_call = <<>>

DispatchInit ==
    /\ default_engine \in EngineNames \cup {NoName}
    /\ fallback_order \in SeqsUpTo(EngineNames, MaxFallback)
    /\ engine_env = [e \in EngineNames |-> "unknown"]
    /\ init_idx = 1
    /\ engines = {}
    /\ available_engines = <<>>
    /\ pc = "init"
    /\ preferred_engine = NoName
    /\ engine_order = <<>>
    /\ idx = 1
    /\ attempts = <<>>
    /\ result = FALSE

InitDispatch == DispatchInit /\ AudioInit /\ PipelineOff /\ EngineOff /\ ItemOff /\ ExportOff

NextDispatch == InitializeEngine \/ CallGenerate \/ TryEngine

SpecDispatch == InitDispatch /\ [][NextDispatch]_vars

-----------------------------------------------------------------------------
(* AudioProcessor *)

\* config["timing"], in microseconds: the defaults (1.5 s and 0.5 s), two
\* durations below a millisecond, and two equal durations
TimingChoices ==
    {[between_languages |-> 1500000, between_items |-> 500000],
     [between_languages |-> 400, between_items |-> 400],
     [between_languages |-> 500000, between_items |-> 500000]}

\* Faulty variant: the factor 1000 is missing, int(seconds)
ToMsNoFactor(us) == us \div 1000000

\* int(seconds * 1000)
ToMs(us) == us \div 1000

\* An AudioSegment is the sequence of what was concatenated into it
NoPath == <<"", 0>>

Clip(path, ms) == [kind |-> "clip", path |-> path, ms |-> ms]

Silence(ms) == [kind |-> "silence", path |-> NoPath, ms |-> ms]

\* len(audio): the duration in milliseconds
RECURSIVE AudioLen(_)
AudioLen(audio) ==
    IF audio = <<>> THEN 0 ELSE Head(audio).ms + AudioLen(Tail(audio))

\* Optional[AudioSegment]
None == [some |-> FALSE, audio |-> <<>>]

Some(audio) == [some |-> TRUE, audio |-> audio]

\* Faulty variant: x is not None
TruthyNotNone(x) == x.some

\* bool(x) of an Optional[AudioSegment]: None is falsy, and so is a segment
\* of length 0 (AudioSegment defines __len__ and no __bool__)
Truthy(x) == x.some /\ AudioLen(x.audio) > 0

\* AudioSegment.silent(duration=duration_ms)
_create_silence(duration_ms) == <<Silence(duration_ms)>>

\* What a path holds when _load_audio reads it
FileStatuses ==
    {[exists |-> FALSE, decodes |-> FALSE, ms |-> 0],
     [exists |-> TRUE, decodes |-> FALSE, ms |-> 0]}
    \cup {[exists |-> TRUE, decodes |-> TRUE, ms |-> d] : d \in {0, 300, 700}}

_load_audio(file_path, st) ==
    IF ~st.exists THEN None
    ELSE IF ~st.decodes THEN None
    ELSE Some(<<Clip(file_path, st.ms)>>)

\* Faulty variant: fails only when both clips fail to load (and for or)
_combine_translation_pair_and(main_audio_path, main_st, second_audio_path, second_st, add_item_silence) ==
    LET main_audio == _load_audio(main_audio_path, main_st)
        second_audio == _load_audio(second_audio_path, second_st)
    IN  IF ~Truthy(main_audio) /\ ~Truthy(second_audio) THEN None
        ELSE Some(main_audio.audio
                  \o _create_silence(between_languages_ms)
                  \o second_audio.audio
                  \o (IF add_item_silence
                      THEN _create_silence(between_items_ms) ELSE <<>>))

_combine_translation_pair(main_audio_path, main_st, second_audio_path, second_st, add_item_silence) ==
    LET main_audio == _load_audio(main_audio_path, main_st)
        second_audio == _load_audio(second_audio_path, second_st)
    IN  IF ~Truthy(main_audio) \/ ~Truthy(second_audio) THEN None
        ELSE Some(main_audio.audio
                  \o _create_silence(between_languages_ms)
                  \o second_audio.audio
                  \o (IF add_item_silence
                      THEN _create_silence(between_items_ms) ELSE <<>>))

\* A caller invokes _combine_translation_pair on its own. The processor keeps
\* nothing between calls but its configuration, so the call is taken from the
\* idle state only.
CombinePair ==
    /\ apc = "idle"
    /\ \E main_st, second_st \in FileStatuses, add_item_silence \in BOOLEAN :
          pair_call' = <<[main |-> main_st, second |-> second_st,
                          add |-> add_item_silence,
                          result |-> _combine_translation_pair(
                              <<"main", 0>>, main_st, <<"second", 0>>,
                              second_st, add_item_silence)]>>
    /\ apc' = "idle"
    /\ audio_pairs' = <<>>
    /\ pair_log' = <<>>
    /\ pair_idx' = 1
    /\ combined' = <<>>
    /\ pair_results' = <<>>
    /\ batch_result' = None
    /\ UNCHANGED <<timing_config, between_languages_ms, between_items_ms>>
    /\ UNCHANGED <<dvars, pvars, evars, tvars, xvars>>

\* Faulty variant: the item silence is added after every pair
AddItemSilenceAlways(i, total_pairs) == TRUE

\* add_item_silence = (i < total_pairs - 1), i counted from 0
AddItemSilence(i, total_pairs) == i < total_pairs - 1

\* Faulty variant: the empty track is returned as a track
BatchReturnAlways(audio) == Some(audio)

\* return combined if len(combined) > 0 else None
BatchReturn(audio) == IF AudioLen(audio) > 0 THEN Some(audio) ELSE None

\* _combine_multiple_pairs is called on the clip files of n items
CallCombineBatch ==
    /\ apc \in {"idle", "returned"}
    /\ \E n \in 0..MaxPairs :
          /\ audio_pairs' = [k \in 1..n |-> <<<<"main", k>>, <<"second", k>>>>]
          /\ apc' = IF n = 0 THEN "returned" ELSE "combining"
    /\ batch_result' = None
    /\ combined' = <<>>
    /\ pair_idx' = 1
    /\ pair_log' = <<>>
    /\ pair_results' = <<>>
    /\ pair_call' = <<>>
    /\ UNCHANGED <<timing_config, between_languages_ms, between_items_ms>>
    /\ UNCHANGED <<dvars, pvars, evars, tvars, xvars>>

\* One iteration of the for loop of _combine_multiple_pairs, or its end
CombineStep ==
    /\ apc = "combining"
    /\ IF pair_idx > Len(audio_pairs)
         THEN /\ apc' = "returned"
              /\ batch_result' = BatchReturn(combined)
              /\ UNCHANGED <<pair_idx, combined, pair_log, pair_results>>
         ELSE \E main_st, second_st \in FileStatuses :
                 LET add_item_silence ==
                         AddItemSilence(pair_idx - 1, Len(audio_pairs))
                     pair_audio == _combine_translation_pair(
                         audio_pairs[pair_idx][1], main_st,
                         audio_pairs[pair_idx][2], second_st, add_item_silence)
                 IN  /\ pair_log' = Append(pair_log,
                            [main |-> main_st, second |-> second_st,
                             add |-> add_item_silence])
                     /\ pair_results' = Append(pair_results, pair_audio)
                     /\ combined' = IF Truthy(pair_audio)
                                    THEN combined \o pair_audio.audio
                                    ELSE combined
                     /\ pair_idx' = pair_idx + 1
                     /\ UNCHANGED <<apc, batch_result>>
    /\ UNCHANGED <<timing_config, between_languages_ms, between_items_ms,
                   audio_pairs, pair_call>>
    /\ UNCHANGED <<dvars, pvars, evars, tvars, xvars>>

\* AudioProcessor.__init__ has run
AudioConstructed ==
    /\ timing_config \in TimingChoices
    /\ between_languages_ms = ToMs(timing_config.between_languages)
    /\ between_items_ms = ToMs(timing_config.between_items)
    /\ apc = "idle"
    /\ audio_pairs = <<>>
    /\ pair_log = <<>>
    /\ pair_idx = 1
    /\ combined = <<>>
    /\ pair_results = <<>>
    /\ batch_result = None
    /\ pair_call = <<>>

\* The TTSEngineManager is not running
DispatchOff ==
    /\ default_engine = NoName
    /\ fallback_order = <<>>
    /\ engine_env = [e \in EngineNames |-> "unknown"]
    /\ init_idx = 1
    /\ engines = {}
    /\ available_engines = <<>>
    /\ pc = "off"
    /\ preferred_engine = NoName
    /\ engine_order = <<>>
    /\ idx = 1
    /\ attempts = <<>>
    /\ result = FALSE

InitAssemble == DispatchOff /\ AudioConstructed /\ PipelineOff /\ EngineOff /\ ItemOff /\ ExportOff

NextAssemble == CombinePair \/ CallCombineBatch \/ CombineStep

SpecAssemble == InitAssemble /\ [][NextAssemble]_vars

-----------------------------------------------------------------------------
(* TTSProcessor.process_translation_file, src/src/main.py                  *)

\* The language fields of an item, in insertion order. An item has at least
\* two fields and every value is non-empty (TranslationItem.__init__)
ItemShapes == {<<"finnish", "english">>, <<"english", "finnish", "turkish">>}

\* translations.translations: a non-empty list of items
TranslationLists == UNION {[1..k -> ItemShapes] : k \in 1..MaxItems}

\* temp_path / f"{lang_name}_{i:03d}.mp3"
ClipPath(lang_name, i) == <<lang_name, i>>

\* A run of process_translation_file starts: the file is parsed, the
\* timestamp taken, and the temporary directory created
StartRun ==
    /\ rpc = "idle"
    /\ \E ts \in TranslationLists, keep \in BOOLEAN, now \in Timestamps :
          /\ translations' = ts
          /\ keep_individual' = keep
          /\ timestamp' = now
    /\ out_before' = out_files
    /\ item_idx' = 1
    /\ lang_idx' = 1
    /\ audio_paths' = <<>>
    /\ success_all' = TRUE
    /\ run_audio_pairs' = <<>>
    /\ synth_log' = <<>>
    /\ tmp_files' = {}
    /\ run_log' = NoRunLog
    /\ run_result' = FALSE
    /\ rpc' = "synth"
    /\ UNCHANGED out_files
    /\ UNCHANGED <<dvars, avars, evars, tvars, xvars>>

\* Faulty variant: the pair is appended whenever two clips were written
AppendsPairAnyTwo(ok_all, paths) == Len(paths) >= 2

\* if success_all and len(audio_paths) >= 2
AppendsPair(ok_all, paths) == ok_all /\ Len(paths) >= 2

\* Faulty variant: the pair is (second clip, first clip)
PairOfSwapped(paths) == <<paths[2], paths[1]>>

\* (audio_paths[0], audio_paths[1])
PairOf(paths) == <<paths[1], paths[2]>>

\* Faulty variant: a failed item ends the item loop
ItemLoopEndsOnFailure(i, total, ok_all) == i = total \/ ~ok_all

\* for i, item in enumerate(translations.translations): the loop ends after
\* the last item, whatever became of the items
ItemLoopEnds(i, total, ok_all) == i = total

\* One iteration of the language loop: generate_with_fallback writes the clip
\* and returns True, or returns False. When the loop over the item's fields
\* ends, by break or by exhaustion, the item's pair is appended or not and
\* the item loop moves on.
SynthStep ==
    /\ rpc = "synth"
    /\ LET item == translations[item_idx]
           lang_name == item[lang_idx]
           audio_path == ClipPath(lang_name, item_idx - 1)
       IN  \E success \in BOOLEAN :
             LET paths == IF success THEN Append(audio_paths, audio_path)
                          ELSE audio_paths
                 ok_all == success_all /\ success
                 item_done == ~success \/ lang_idx = Len(item)
             IN  /\ synth_log' = Append(synth_log,
                        [item |-> item_idx, lang |-> lang_name, success |-> success])
                 /\ tmp_files' = IF success THEN tmp_files \cup {audio_path}
                                 ELSE tmp_files
                 /\ IF item_done
                    THEN /\ run_audio_pairs' =
                               IF AppendsPair(ok_all, paths)
                               THEN Append(run_audio_pairs, PairOf(paths))
                               ELSE run_audio_pairs
                         /\ audio_paths' = <<>>
                         /\ success_all' = TRUE
                         /\ lang_idx' = 1
                         /\ item_idx' = item_idx + 1
                         /\ rpc' = IF ItemLoopEnds(item_idx, Len(translations), ok_all)
                                   THEN "batch" ELSE "synth"
                    ELSE /\ audio_paths' = paths
                         /\ success_all' = ok_all
                         /\ lang_idx' = lang_idx + 1
                         /\ UNCHANGED <<run_audio_pairs, item_idx, rpc>>
    /\ UNCHANGED <<translations, keep_individual, timestamp, out_files,
                   out_before, run_log, run_result>>
    /\ UNCHANGED <<dvars, avars, evars, tvars, xvars>>

\* What a clip file that exists holds when the assembler reads it: it
\* decodes or it does not
ClipStatuses == {st \in FileStatuses : st.exists /\ (st.decodes => st.ms = 700)}

MissingClip == [exists |-> FALSE, decodes |-> FALSE, ms |-> 0]

\* if not file_path.exists(), for a path of the clip directory
ClipStatusesAt(path, files) ==
    IF path \in files THEN ClipStatuses ELSE {MissingClip}

\* What the paths of the pairs hold, pair by pair
PairStatuses(pairs, files) ==
    IF \A k \in 1..Len(pairs) : pairs[k][1] \in files /\ pairs[k][2] \in files
    THEN [1..Len(pairs) -> ClipStatuses \X ClipStatuses]
    ELSE {sts \in [1..Len(pairs) -> (ClipStatuses \cup {MissingClip})
                                      \X (ClipStatuses \cup {MissingClip})] :
             \A k \in 1..Len(pairs) :
                 /\ sts[k][1] \in ClipStatusesAt(pairs[k][1], files)
                 /\ sts[k][2] \in ClipStatusesAt(pairs[k][2], files)}

\* AudioProcessor._combine_multiple_pairs as one call; sts[k] is what the two
\* paths of pair k hold, i is the enumerate index
RECURSIVE CombineFrom(_, _, _, _)
CombineFrom(pairs, sts, i, acc) ==
    IF i >= Len(pairs) THEN BatchReturn(acc)
    ELSE LET pair_audio == _combine_translation_pair(
                               pairs[i + 1][1], sts[i + 1][1],
                               pairs[i + 1][2], sts[i + 1][2],
                               AddItemSilence(i, Len(pairs)))
         IN  CombineFrom(pairs, sts, i + 1,
                         IF Truthy(pair_audio) THEN acc \o pair_audio.audio
                         ELSE acc)

_combine_multiple_pairs(pairs, sts) ==
    IF pairs = <<>> THEN None ELSE CombineFrom(pairs, sts, 0, <<>>)

\* Where _save_audio can fail: mkdir of the parent, set_frame_rate or
\* set_channels, opening the output path, the encoder
SaveOutcomes == {"ok", "mkdir_error", "resample_error", "open_error", "encode_error"}

\* Faulty variant: without the try/except an error leaves _save_audio as an
\* exception
_save_audio_no_except(outcome) == IF outcome = "ok" THEN "true" ELSE "raise"

\* The return value of _save_audio: every exception is caught
_save_audio(outcome) == IF outcome = "ok" THEN "true" ELSE "false"

\* What the output path holds after _save_audio. AudioSegment.export opens
\* the path for writing, which empties an existing file, before it encodes
ExportedFile(outcome, before) ==
    CASE outcome = "ok" -> "complete"
      [] outcome = "encode_error" -> "truncated"
      [] OTHER -> before

\* Faulty variant: an empty pair list is handed on to the assembler
NoPairsNever(pairs) == FALSE

\* if not audio_pairs
NoPairs(pairs) == pairs = <<>>

\* Faulty variant: the clips are deleted whether or not the export succeeded
CleansUpAnyway(success, keep) == ~keep

\* if success and not keep_individual
CleansUp(success, keep) == success = "true" /\ ~keep

PairPaths(pairs) == UNION {{pairs[k][1], pairs[k][2]} : k \in 1..Len(pairs)}

\* After the item loop: the early return on an empty pair list, or else
\* process_translation_batch (combine, _save_audio, cleanup of the clips)
BatchStep ==
    /\ rpc = "batch"
    /\ IF NoPairs(run_audio_pairs)
       THEN /\ run_result' = FALSE
            /\ rpc' = "exit"
            /\ UNCHANGED <<run_log, out_files, tmp_files>>
       ELSE \E sts \in PairStatuses(run_audio_pairs, tmp_files) :
              LET combined_audio == _combine_multiple_pairs(run_audio_pairs, sts)
              IN  IF ~Truthy(combined_audio)
                  THEN /\ run_log' = [NoRunLog EXCEPT !.batch_called = TRUE,
                                                      !.statuses = sts,
                                                      !.batch_success = "false"]
                       /\ run_result' = FALSE
                       /\ rpc' = "exit"
                       /\ UNCHANGED <<out_files, tmp_files>>
                  ELSE \E outcome \in SaveOutcomes :
                         LET success == _save_audio(outcome)
                             unlinked == IF CleansUp(success, keep_individual)
                                         THEN PairPaths(run_audio_pairs) ELSE {}
                         IN  /\ run_log' = [batch_called |-> TRUE, statuses |-> sts,
                                            combine_ok |-> TRUE, save_called |-> TRUE,
                                            save_outcome |-> outcome,
                                            save_result |-> success,
                                            batch_success |-> success,
                                            unlinked |-> unlinked]
                             /\ out_files' = [out_files EXCEPT ![timestamp] =
                                                 ExportedFile(outcome, @)]
                             /\ run_result' = (success = "true")
                             /\ IF success = "raise"
                                THEN rpc' = "raised" /\ tmp_files' = {}
                                ELSE rpc' = "exit" /\ tmp_files' = tmp_files \ unlinked
    /\ UNCHANGED <<translations, keep_individual, timestamp, item_idx, lang_idx,
                   audio_paths, success_all, run_audio_pairs, synth_log,
                   out_before>>
    /\ UNCHANGED <<dvars, avars, evars, tvars, xvars>>

\* The return statement leaves the with block: TemporaryDirectory removes the
\* directory and everything in it
ExitRun ==
    /\ rpc = "exit"
    /\ tmp_files' = {}
    /\ rpc' = "returned"
    /\ UNCHANGED <<translations, keep_individual, timestamp, item_idx, lang_idx,
                   audio_paths, success_all, run_audio_pairs, synth_log,
                   out_files, out_before, run_log, run_result>>
    /\ UNCHANGED <<dvars, avars, evars, tvars, xvars>>

\* The caller goes on to its next input file: nothing of the run is kept
\* but the files it exported
NextFile ==
    /\ rpc = "returned"
    /\ rpc' = "idle"
    /\ translations' = <<>>
    /\ keep_individual' = FALSE
    /\ timestamp' = "t1"
    /\ item_idx' = 1
    /\ lang_idx' = 1
    /\ audio_paths' = <<>>
    /\ success_all' = TRUE
    /\ run_audio_pairs' = <<>>
    /\ synth_log' = <<>>
    /\ out_before' = out_files
    /\ run_log' = NoRunLog
    /\ run_result' = FALSE
    /\ UNCHANGED <<tmp_files, out_files>>
    /\ UNCHANGED <<dvars, avars, evars, tvars, xvars>>

InitPipeline ==
    /\ DispatchOff /\ AudioInit /\ rpc = "idle" /\ PipelineLocals /\ EngineOff
    /\ ItemOff /\ ExportOff

NextPipeline == StartRun \/ SynthStep \/ BatchStep \/ ExitRun \/ NextFile

SpecPipeline == InitPipeline /\ [][NextPipeline]_vars

\* The pairs of a direct process_translation_batch call: the two clip paths
\* of items 0, 1, ...
BatchPairs(n) ==
    [k \in 1..n |-> <<ClipPath("finnish", k - 1), ClipPath("english", k - 1)>>]

\* process_translation_batch is called on its own, on pairs whose files
\* exist or do not
InitBatch ==
    /\ DispatchOff /\ AudioInit /\ EngineOff /\ ItemOff /\ ExportOff
    /\ rpc = "batch"
    /\ translations = <<>>
    /\ keep_individual \in BOOLEAN
    /\ timestamp = "t1"
    /\ item_idx = 1
    /\ lang_idx = 1
    /\ audio_paths = <<>>
    /\ success_all = TRUE
    /\ run_audio_pairs \in {BatchPairs(n) : n \in 1..MaxItems}
    /\ synth_log = <<>>
    /\ tmp_files \in SUBSET PairPaths(run_audio_pairs)
    /\ out_files = [t \in Timestamps |-> "absent"]
    /\ out_before = [t \in Timestamps |-> "absent"]
    /\ run_log = NoRunLog
    /\ run_result = FALSE

NextBatch == BatchStep

SpecBatch == InitBatch /\ [][NextBatch]_vars

-----------------------------------------------------------------------------
(* The backends, src/src/engines *)

\* None, an absent voice
NoVoice == ""

\* A catalog entry: a voice name with the locale its backend lists it under,
\* as language and region (region "" for a bare language code)
CatalogEntries ==
    {[lang |-> "fi", region |-> "FI", name |-> "fi-a"],
     [lang |-> "fi", region |-> "", name |-> "fi-b"],
     [lang |-> "en", region |-> "US", name |-> "en-a"],
     [lang |-> "multilingual", region |-> "", name |-> "multi"]}

Languages == {"fi", "en"}

\* What the catalog lookup of a backend gives: the list, or an error.
\* gTTS reads its language table from the installed package
Catalogs(engine) ==
    {[error |-> FALSE, entries |-> s] : s \in SeqsUpTo(CatalogEntries, MaxVoices)}
    \cup (IF engine = "gtts" THEN {} ELSE {[error |-> TRUE, entries |-> <<>>]})

\* The voice configured for the language (voices / models mapping), if any
ConfiguredVoices(engine) ==
    IF engine = "gtts" THEN {NoVoice} ELSE {NoVoice, "fi-a", "fi-b", "zz"}

Names(entries) == [k \in 1..Len(entries) |-> entries[k].name]

\* get_voices(language): whether it raised, and the list it returned
Voices(raised, voices) == [raised |-> raised, voices |-> voices]

RegionOf(language, entry) == entry.lang = language /\ entry.region # ""

get_voices(engine, catalog, language) ==
    CASE engine = "edge-tts" ->
            IF catalog.error THEN Voices(TRUE, <<>>)
            ELSE LET Match(v) == RegionOf(language, v)
                 IN  Voices(FALSE, Names(SelectSeq(catalog.entries, Match)))
      [] engine = "piper" ->
            IF catalog.error THEN Voices(FALSE, <<>>)
            ELSE LET Match(v) == RegionOf(language, v)
                 IN  Voices(FALSE, Names(SelectSeq(catalog.entries, Match)))
      [] engine = "coqui" ->
            IF catalog.error THEN Voices(FALSE, <<>>)
            ELSE LET Match(v) == v.lang = "multilingual" \/ v.lang = language
                 IN  Voices(FALSE, Names(SelectSeq(catalog.entries, Match)))
      [] OTHER ->
            IF \E k \in 1..Len(catalog.entries) :
                   /\ catalog.entries[k].lang = language
                   /\ catalog.entries[k].region = ""
            THEN Voices(FALSE, <<language>>)
            ELSE Voices(FALSE, <<>>)

\* Faulty variant: the configured voice is returned without looking it up
DefaultOfUnchecked(engine, configured, voices) ==
    IF configured # NoVoice THEN configured
    ELSE IF voices # <<>> THEN voices[1] ELSE NoVoice

\* get_default_voice on the list get_voices returned. GTTSEngine inherits
\* the base method: the first voice or None
DefaultOf(engine, configured, voices) ==
    IF engine # "gtts" /\ configured # NoVoice /\ configured \in SeqRange(voices)
    THEN configured
    ELSE IF voices # <<>> THEN voices[1] ELSE NoVoice

\* get_default_voice(language): an exception of get_voices passes through
get_default_voice(engine, configured, catalog, language) ==
    LET available_voices == get_voices(engine, catalog, language)
    IN  [raised |-> available_voices.raised,
         voices |-> available_voices.voices,
         voice |-> IF available_voices.raised THEN NoVoice
                   ELSE DefaultOf(engine, configured, available_voices.voices)]

\* A caller asks a backend for the default voice of a language
QueryDefaultVoice ==
    /\ e_pc = "idle"
    /\ \E engine \in EngineNames, language \in Languages :
       \E configured \in ConfiguredVoices(engine), catalog \in Catalogs(engine) :
          LET r == get_default_voice(engine, configured, catalog, language)
          IN  e_query' = [engine |-> engine, configured |-> configured,
                          language |-> language, catalog |-> catalog,
                          raised |-> r.raised, voices |-> r.voices,
                          returned |-> r.voice]
    /\ e_pc' = "returned"
    /\ e_call' = NoCall
    /\ e_outcome' = "none"
    /\ e_synth' = FALSE
    /\ e_files' = {}
    /\ UNCHANGED <<dvars, avars, pvars, tvars, xvars>>

\* What a generate_speech call meets: the backend's configuration and
\* catalog, whether the parent directory can be created, whether the model
\* is there and loads, how synthesis ends, how the conversion to the
\* destination format ends, and whether the destination's suffix is .wav
Envs(engine) ==
    [configured : ConfiguredVoices(engine),
     catalog : Catalogs(engine),
     mkdir : BOOLEAN,
     model : BOOLEAN,
     synth : {"ok", "fail", "fail_partial"},
     convert : {"ok", "decode_error", "export_error"},
     dest_wav : BOOLEAN]

\* output_path, and output_path.with_suffix('.wav')
DestPath(env) == IF env.dest_wav THEN "clip.wav" ELSE "clip.mp3"

WavPath == "clip.wav"

\* The end of a generate_speech call
Res(outcome, synth, files) == [outcome |-> outcome, synth |-> synth, files |-> files]

\* if not voice: voice = self.get_default_voice(language)
ResolveVoice(engine, voice, language, env) ==
    IF voice = NoVoice
    THEN get_default_voice(engine, env.configured, env.catalog, language)
    ELSE [raised |-> FALSE, voices |-> <<>>, voice |-> voice]

\* Faulty variant: the call goes on without a voice
StillNoVoiceNever(voice) == FALSE

\* if not voice: return False
StillNoVoice(voice) == voice = NoVoice

\* EdgeTTSEngine.generate_speech
edge_generate_speech(voice, language, env) ==
    LET dv == ResolveVoice("edge-tts", voice, language, env)
    IN  IF dv.raised THEN Res("raise", FALSE, {})
        ELSE IF StillNoVoice(dv.voice) THEN Res("false", FALSE, {})
        ELSE IF ~env.mkdir THEN Res("raise", FALSE, {})
        ELSE IF env.synth = "ok" THEN Res("true", TRUE, {DestPath(env)})
        ELSE Res("false", TRUE,
                 IF env.synth = "fail_partial" THEN {DestPath(env)} ELSE {})

\* GTTSEngine.generate_speech
gtts_generate_speech(voice, language, env) ==
    LET lang_code == get_voices("gtts", env.catalog, language).voices
    IN  IF lang_code = <<>> THEN Res("false", FALSE, {})
        ELSE IF ~env.mkdir THEN Res("false", FALSE, {})
        ELSE IF env.synth = "ok" THEN Res("true", TRUE, {DestPath(env)})
        ELSE Res("false", TRUE,
                 IF env.synth = "fail_partial" THEN {DestPath(env)} ELSE {})

\* PiperEngine.generate_speech
piper_generate_speech(voice, language, env) ==
    LET dv == ResolveVoice("piper", voice, language, env)
    IN  IF dv.raised THEN Res("raise", FALSE, {})
        ELSE IF StillNoVoice(dv.voice) THEN Res("false", FALSE, {})
        ELSE IF ~env.model THEN Res("false", FALSE, {})
        ELSE IF ~env.mkdir THEN Res("false", FALSE, {})
        ELSE IF env.synth # "ok" THEN Res("false", TRUE, {})
        ELSE CASE env.convert = "ok" -> Res("true", TRUE, {DestPath(env)})
               [] env.convert = "decode_error" -> Res("false", TRUE, {})
               [] OTHER -> Res("false", TRUE, {DestPath(env)})

\* CoquiEngine.generate_speech
coqui_generate_speech(voice, language, env) ==
    LET dv == ResolveVoice("coqui", voice, language, env)
    IN  IF dv.raised THEN Res("raise", FALSE, {})
        ELSE IF StillNoVoice(dv.voice) THEN Res("false", FALSE, {})
        ELSE IF ~env.mkdir THEN Res("false", FALSE, {})
        ELSE IF ~env.model THEN Res("false", FALSE, {})
        ELSE IF env.synth # "ok"
             THEN Res("false", TRUE,
                      IF env.synth = "fail_partial" THEN {WavPath} ELSE {})
        ELSE CASE env.convert = "ok" ->
                    Res("true", TRUE, ({WavPath} \cup {DestPath(env)}) \ {WavPath})
               [] env.convert = "decode_error" ->
                    Res("false", TRUE, {WavPath} \ {WavPath})
               [] OTHER ->
                    Res("false", TRUE, ({WavPath} \cup {DestPath(env)}) \ {WavPath})

generate_speech(engine, voice, language, env) ==
    CASE engine = "edge-tts" -> edge_generate_speech(voice, language, env)
      [] engine = "gtts" -> gtts_generate_speech(voice, language, env)
      [] engine = "piper" -> piper_generate_speech(voice, language, env)
      [] OTHER -> coqui_generate_speech(voice, language, env)

\* A caller invokes generate_speech of a backend on a destination that does
\* not exist yet; a call keeps nothing that a later call reads but the
\* catalog, which the call's environment gives
GenerateSpeech ==
    /\ e_pc = "idle"
    /\ \E engine \in EngineNames, voice \in {NoVoice, "fi-a"}, language \in Languages :
       \E env \in Envs(engine) :
          LET r == generate_speech(engine, voice, language, env)
          IN  /\ e_call' = [engine |-> engine, voice |-> voice,
                            language |-> language, env |-> env]
              /\ e_outcome' = r.outcome
              /\ e_synth' = r.synth
              /\ e_files' = r.files
    /\ e_pc' = "returned"
    /\ e_query' = NoQuery
    /\ UNCHANGED <<dvars, avars, pvars, tvars, xvars>>

InitEngine ==
    /\ DispatchOff /\ AudioInit /\ PipelineOff /\ e_pc = "idle" /\ EngineLocals
    /\ ItemOff /\ ExportOff

NextEngine == QueryDefaultVoice \/ GenerateSpeech

SpecEngine == InitEngine /\ [][NextEngine]_vars

-----------------------------------------------------------------------------
(* TranslationItem, src/src/translation_parser.py *)

\* A field value of the YAML mapping: null, or a text over a space and a
\* letter
Chars == {" ", "a"}

FieldValues ==
    {[none |-> TRUE, text |-> <<>>]}
    \cup {[none |-> FALSE, text |-> s] : s \in SeqsUpTo(Chars, MaxText)}

\* str.strip()
RECURSIVE LStrip(_)
LStrip(text) ==
    IF text # <<>> /\ Head(text) = " " THEN LStrip(Tail(text)) ELSE text

RECURSIVE RStrip(_)
RStrip(text) ==
    IF text # <<>> /\ text[Len(text)] = " "
    THEN RStrip(SubSeq(text, 1, Len(text) - 1)) ELSE text

Strip(text) == RStrip(LStrip(text))

\* Faulty variant: only not value is tested
RejectedNoStrip(value) == value.none \/ value.text = <<>>

\* not value or not str(value).strip()
Rejected(value) ==
    \/ value.none \/ value.text = <<>>
    \/ Strip(value.text) = <<>>

\* TranslationItem.__init__(**data): the item, or a ValueError
TranslationItemInit(data) ==
    IF Len(data) < 2 THEN [raised |-> TRUE, item |-> NoItem]
    ELSE IF \E k \in 1..Len(data) : Rejected(data[k])
         THEN [raised |-> TRUE, item |-> NoItem]
         ELSE [raised |-> FALSE, item |-> [some |-> TRUE, fields |-> data]]

ConstructItem ==
    /\ t_pc = "idle"
    /\ LET r == TranslationItemInit(t_data)
       IN  /\ t_item' = r.item
           /\ t_raised' = r.raised
    /\ t_pc' = "done"
    /\ UNCHANGED t_data
    /\ UNCHANGED <<dvars, avars, pvars, evars, xvars>>

InitItem ==
    /\ DispatchOff /\ AudioInit /\ PipelineOff /\ EngineOff /\ ExportOff
    /\ t_pc = "idle"
    /\ t_data \in SeqsUpTo(FieldValues, MaxFields)
    /\ t_item = NoItem
    /\ t_raised = FALSE

NextItem == ConstructItem

SpecItem == InitItem /\ [][NextItem]_vars

-----------------------------------------------------------------------------
(* AudioProcessor._save_audio and the decoder, src/src/audio_processor.py *)

Params(frame_rate, channels) == [frame_rate |-> frame_rate, channels |-> channels]

\* quality_config defaults: sample_rate 44100, channels 1
DefaultQuality == Params(44100, 1)

QualityChoices == {DefaultQuality, Params(22050, 2), Params(96000, 1)}

\* Frame rate and channel count of a clip a backend wrote
ClipParams == {Params(r, c) : r \in {22050, 44100, 48000}, c \in {1, 2}}

\* AudioSegment.silent(): 11025 Hz, mono
SilenceParams == Params(11025, 1)

Max(a, b) == IF a >= b THEN a ELSE b

\* a + b of two segments: both are brought to the larger frame rate and the
\* larger channel count before they are joined
Joined(a, b) ==
    Params(Max(a.frame_rate, b.frame_rate), Max(a.channels, b.channels))

RECURSIVE JoinAll(_, _)
JoinAll(acc, clips) ==
    IF clips = <<>> THEN acc
    ELSE JoinAll(Joined(Joined(acc, Head(clips)), SilenceParams), Tail(clips))

\* audio.set_frame_rate(self.sample_rate)
set_frame_rate(audio, frame_rate) == Params(frame_rate, audio.channels)

\* Faulty variant: the channel count is left as it is
set_channels_kept(audio, channels) == audio

\* audio.set_channels(self.channels)
set_channels(audio, channels) == Params(audio.frame_rate, channels)

\* The frame rates an MP3 stream can have
Mp3Rates == {8000, 11025, 12000, 16000, 22050, 24000, 32000, 44100, 48000}

Distance(a, b) == IF a >= b THEN a - b ELSE b - a

\* audio.export(output_path, format="mp3", ...): the encoder keeps the
\* channel count and the frame rate, or takes the nearest rate MP3 has
Encoded(audio) ==
    IF audio.frame_rate \in Mp3Rates THEN audio
    ELSE Params(CHOOSE m \in Mp3Rates :
                    \A n \in Mp3Rates :
                        Distance(m, audio.frame_rate) <= Distance(n, audio.frame_rate),
                audio.channels)

\* The track is assembled from the clips and the silences between them
CombineTrack ==
    /\ x_pc = "idle"
    /\ x_track' = JoinAll(Head(x_clips), Tail(x_clips))
    /\ x_pc' = "combined"
    /\ UNCHANGED <<x_quality, x_clips, x_file, x_decoded>>
    /\ UNCHANGED <<dvars, avars, pvars, evars, tvars>>

\* _save_audio: the track is resampled, its channels set, and it is encoded
\* to the output file, or an error ends the call
SaveAudio ==
    /\ x_pc = "combined"
    /\ \E outcome \in SaveOutcomes :
          IF _save_audio(outcome) = "true"
          THEN /\ x_file' = Encoded(set_channels(
                                       set_frame_rate(x_track, x_quality.frame_rate),
                                       x_quality.channels))
               /\ x_pc' = "saved"
          ELSE /\ x_pc' = "failed"
               /\ UNCHANGED x_file
    /\ UNCHANGED <<x_quality, x_clips, x_track, x_decoded>>
    /\ UNCHANGED <<dvars, avars, pvars, evars, tvars>>

\* The exported file is decoded: the decoder gives the frame rate and channel
\* count the file was encoded with
DecodeFile ==
    /\ x_pc = "saved"
    /\ x_decoded' = x_file
    /\ x_pc' = "decoded"
    /\ UNCHANGED <<x_quality, x_clips, x_track, x_file>>
    /\ UNCHANGED <<dvars, avars, pvars, evars, tvars>>

InitExport ==
    /\ DispatchOff /\ AudioInit /\ PipelineOff /\ EngineOff /\ ItemOff
    /\ x_pc = "idle"
    /\ x_quality \in QualityChoices
    /\ x_clips \in UNION {[1..k -> ClipParams] : k \in 1..MaxClips}
    /\ ExportLocals

NextExport == CombineTrack \/ SaveAudio \/ DecodeFile

SpecExport == InitExport /\ [][NextExport]_vars

-----------------------------------------------------------------------------
(* The dispatcher's declared behaviour, stated from the environment *)

\* Enabled in configuration, constructed without error, reported available
InRegistry(e) ==
    /\ e \in EngineNames
    /\ engine_env[e] \notin {"unknown", "disabled", "ctor_raises", "unavailable"}

RegistryOrder == SelectSeq(ENGINE_CLASSES, InRegistry)

\* s without the later repetitions of its elements
RECURSIVE Dedup(_)
Dedup(s) ==
    IF s = <<>> THEN <<>>
    ELSE LET h == Head(s)
             NotH(x) == x # h
         IN  <<h>> \o SelectSeq(Dedup(Tail(s)), NotH)

\* preferred (if available), the default, the fallback order filtered to the
\* available backends, the remaining available backends in registry order
DeclaredOrder ==
    Dedup((IF preferred_engine # NoName /\ InRegistry(preferred_engine)
              THEN <<preferred_engine>> ELSE <<>>)
          \o (IF default_engine # NoName THEN <<default_engine>> ELSE <<>>)
          \o SelectSeq(fallback_order, InRegistry)
          \o RegistryOrder)

AttemptNames == [k \in 1..Len(attempts) |-> attempts[k].engine]

IsPrefix(s, t) == Len(s) <= Len(t) /\ SubSeq(t, 1, Len(s)) = s

InCall == pc \in {"trying", "returned"}

AllFailed == \A k \in 1..Len(attempts) : attempts[k].outcome # "true"

\* C1: the candidate order of a call is preferred (if available), then the
\* default (if not already included), then the available backends of the
\* fallback order, then the remaining available backends in registry order;
\* the backends are attempted in that order.
C1_CandidateOrder ==
    InCall =>
        /\ engine_order = DeclaredOrder
        /\ IsPrefix(AttemptNames, SelectSeq(DeclaredOrder, InRegistry))

C1_Witness ==
    /\ pc = "returned"
    /\ Len(attempts) = 4
    /\ attempts[1].engine = preferred_engine
    /\ attempts[2].engine = default_engine
    /\ attempts[3].engine \in SeqRange(fallback_order)
    /\ attempts[4].engine \notin SeqRange(fallback_order)

\* C2: the call stops at the first candidate whose generate_speech succeeds
\* and returns true: a successful attempt is always the last attempt of the
\* call, every attempt before it failed, and no backend is invoked twice.
C2_FirstSuccessStops ==
    InCall =>
        /\ \A k \in 1..Len(attempts) :
              attempts[k].outcome = "true" =>
                  k = Len(attempts) /\ pc = "returned" /\ result = TRUE
        /\ (pc = "returned" /\ result = TRUE) =>
              Len(attempts) >= 1 /\ attempts[Len(attempts)].outcome = "true"
        /\ \A j, k \in 1..Len(attempts) :
              j # k => attempts[j].engine # attempts[k].engine

\* Fallback order [A, B] with A failing and B succeeding, a third candidate left
C2_Witness ==
    /\ pc = "returned"
    /\ result = TRUE
    /\ Len(attempts) = 2
    /\ attempts[1].outcome # "true"
    /\ fallback_order = <<attempts[1].engine, attempts[2].engine>>
    /\ Len(SelectSeq(engine_order, InRegistry)) > 2

\* C3: when every backend fails the call returns false, having attempted every
\* available backend exactly once, in the declared candidate order.
C3_AllFailAttemptsAll ==
    (pc = "returned" /\ AllFailed) =>
        /\ result = FALSE
        /\ AttemptNames = SelectSeq(DeclaredOrder, InRegistry)
        /\ SeqRange(AttemptNames) = {e \in EngineNames : InRegistry(e)}
        /\ Len(attempts) = Cardinality({e \in EngineNames : InRegistry(e)})

C3_Witness ==
    /\ pc = "returned"
    /\ result = FALSE
    /\ Len(attempts) = 3
    /\ attempts[1].outcome = "false"
    /\ attempts[2].outcome = "raise"

\* C4: the call never raises: an exception or a false result of a candidate is
\* absorbed, the loop has moved past that candidate, and the call ends only
\* by returning.
C4_NeverRaises ==
    /\ pc # "raised"
    /\ InCall =>
          \A k \in 1..Len(attempts) :
              attempts[k].outcome \in {"false", "raise"} =>
                  \E j \in 1..(idx - 1) : engine_order[j] = attempts[k].engine

C4_Witness ==
    /\ pc = "returned"
    /\ result = TRUE
    /\ Len(attempts) = 2
    /\ attempts[1].outcome = "raise"

\* C5: after startup the registry holds exactly the backends that are enabled,
\* were constructed without error and reported available, and no call invokes
\* a backend outside it, whatever is named as preferred, default or fallback.
C5_RegistryOnly ==
    /\ pc # "init" =>
          /\ engines = {e \in EngineNames : InRegistry(e)}
          /\ available_engines = RegistryOrder
    /\ InCall => \A k \in 1..Len(attempts) : attempts[k].engine \in engines

C5_Witness ==
    /\ pc = "returned"
    /\ preferred_engine # NoName /\ preferred_engine \notin engines
    /\ default_engine # NoName /\ default_engine \notin engines
    /\ default_engine # preferred_engine
    /\ \E k \in 1..Len(fallback_order) :
          fallback_order[k] \notin engines \cup {preferred_engine, default_engine}
    /\ Len(attempts) = 1
    /\ idx > Len(engine_order)

-----------------------------------------------------------------------------
(* The assembler's declared behaviour *)

BatchReturned == apc = "returned"

\* _load_audio gets a clip out of the file
Loadable(st) == st.exists /\ st.decodes

\* The number of clips of audio before position k
ClipsBefore(audio, k) ==
    Cardinality({j \in 1..(k - 1) : audio[j].kind = "clip"})

\* A gap after the first clip of a pair / after the second clip of a pair
LangGaps(audio) ==
    {k \in 1..Len(audio) :
        audio[k].kind = "silence" /\ ClipsBefore(audio, k) % 2 = 1}

ItemGaps(audio) ==
    {k \in 1..Len(audio) :
        audio[k].kind = "silence" /\ ClipsBefore(audio, k) % 2 = 0}

EndsWithSilence(audio) ==
    /\ audio # <<>>
    /\ audio[Len(audio)].kind = "silence"
    /\ audio[Len(audio)].ms > 0

AllPairsCombined ==
    /\ Len(pair_results) = Len(audio_pairs)
    /\ \A k \in 1..Len(pair_results) : pair_results[k].some

RECURSIVE ConcatCombined(_)
ConcatCombined(rs) ==
    IF rs = <<>> THEN <<>>
    ELSE (IF Head(rs).some THEN Head(rs).audio ELSE <<>>)
         \o ConcatCombined(Tail(rs))

\* C6: a batch of N pairs that all combine yields a track with exactly N
\* between-languages gaps and N-1 between-items gaps, each of its configured
\* duration; trailing_gap is (index < count - 1) for each pair, and nothing
\* follows the last clip.
C6_GapCounts ==
    (BatchReturned /\ Len(audio_pairs) >= 1 /\ AllPairsCombined) =>
        LET a == batch_result.audio
            N == Len(audio_pairs)
        IN  /\ batch_result.some
            /\ Cardinality(LangGaps(a)) = N
            /\ \A k \in LangGaps(a) : a[k].ms = between_languages_ms
            /\ Cardinality(ItemGaps(a)) = N - 1
            /\ \A k \in ItemGaps(a) : a[k].ms = between_items_ms
            /\ a[Len(a)].kind = "clip"
            /\ \A k \in 1..N : pair_log[k].add = (k - 1 < N - 1)

C6_Witness ==
    /\ BatchReturned
    /\ Len(audio_pairs) = 3
    /\ AllPairsCombined
    /\ between_items_ms > 0
    /\ between_languages_ms > 0

\* C7: whatever pairs combine or fail, the track returned for a batch does not
\* end with silence after its last clip.
C7_NoTrailingSilence ==
    (BatchReturned /\ batch_result.some) => ~EndsWithSilence(batch_result.audio)

\* C8: on two loadable clips _combine_translation_pair returns the first
\* clip, a between-languages silence, the second clip, and a between-items
\* silence exactly when add_item_silence is true.
C8_PairSequence ==
    \A k \in 1..Len(pair_call) :
        LET c == pair_call[k] IN
        (Loadable(c.main) /\ Loadable(c.second)) =>
            c.result = Some(<<Clip(<<"main", 0>>, c.main.ms),
                              Silence(between_languages_ms),
                              Clip(<<"second", 0>>, c.second.ms)>>
                            \o (IF c.add THEN <<Silence(between_items_ms)>>
                                ELSE <<>>))

\* C9: a batch that is empty, or whose pairs all fail to combine, returns
\* none: no audio is produced.
C9_NoneWhenNothingCombined ==
    (BatchReturned /\ \A k \in 1..Len(pair_results) : ~pair_results[k].some) =>
        /\ Len(pair_results) = Len(audio_pairs)
        /\ batch_result = None

C9_Witness ==
    /\ BatchReturned
    /\ Len(audio_pairs) = 2
    /\ Len(pair_log) = 2
    /\ Loadable(pair_log[1].main) /\ pair_log[1].main.ms > 0
    /\ ~Loadable(pair_log[1].second)
    /\ ~Loadable(pair_log[2].main)
    /\ ~batch_result.some

\* C10: a pair with a clip that fails to load puts neither clip nor gap into
\* the track and does not end the batch: every pair is visited, and the track
\* is the concatenation, in order, of the pairs that combined.
C10_FailedPairsSkipped ==
    (BatchReturned /\ Len(audio_pairs) >= 1) =>
        LET a == batch_result.audio
            N == Len(audio_pairs)
            Failed(k) == ~Loadable(pair_log[k].main) \/ ~Loadable(pair_log[k].second)
            Combined == {k \in 1..N : ~Failed(k) /\ pair_results[k].some}
        IN  /\ Len(pair_log) = N
            /\ \A k \in 1..N : Failed(k) =>
                  /\ ~pair_results[k].some
                  /\ \A j \in 1..Len(a) : a[j].path[2] # k
            /\ a = ConcatCombined(pair_results)
            /\ batch_result.some = (Combined # {})
            /\ Cardinality({j \in 1..Len(a) : a[j].kind = "clip"})
                  = 2 * Cardinality(Combined)
            /\ Cardinality({j \in 1..Len(a) : a[j].kind = "silence"})
                  = Cardinality(Combined)
                    + Cardinality({k \in Combined : pair_log[k].add})

C10_Witness ==
    /\ BatchReturned
    /\ Len(audio_pairs) = 3
    /\ Len(pair_log) = 3
    /\ ~pair_log[1].main.exists
    /\ pair_results[2].some
    /\ pair_log[3].second.exists /\ ~pair_log[3].second.decodes
    /\ Loadable(pair_log[3].main) /\ pair_log[3].main.ms > 0
    /\ batch_result.some

\* The durations of the clips of the pairs read so far
RECURSIVE ClipMsSum(_)
ClipMsSum(log) ==
    IF log = <<>> THEN 0
    ELSE Head(log).main.ms + Head(log).second.ms + ClipMsSum(Tail(log))

\* C11: with between_languages = 1.5 s and between_items = 0.5 s, a batch of
\* N pairs that all combine yields a track whose duration is the sum of the
\* clip durations plus N x 1500 ms plus (N-1) x 500 ms.
C11_Duration ==
    (/\ BatchReturned
     /\ Len(audio_pairs) >= 1
     /\ AllPairsCombined
     /\ timing_config = [between_languages |-> 1500000, between_items |-> 500000]) =>
        /\ batch_result.some
        /\ AudioLen(batch_result.audio)
              = ClipMsSum(pair_log) + Len(audio_pairs) * 1500
                + (Len(audio_pairs) - 1) * 500

C11_Witness ==
    /\ BatchReturned
    /\ Len(audio_pairs) = 3
    /\ AllPairsCombined
    /\ timing_config = [between_languages |-> 1500000, between_items |-> 500000]
    /\ AudioLen(batch_result.audio) = 300 + 700 + 700 + 700 + 300 + 300 + 4500 + 1000

-----------------------------------------------------------------------------
(* The batch pipeline *)

RunEnded == rpc \in {"exit", "returned"}

\* Every language of item k was synthesized in this run
ItemSynthesized(k) ==
    \A l \in 1..Len(translations[k]) :
        \E j \in 1..Len(synth_log) :
            synth_log[j] = [item |-> k, lang |-> translations[k][l], success |-> TRUE]

\* Some language of item k failed in this run
ItemFailed(k) ==
    \E j \in 1..Len(synth_log) : synth_log[j].item = k /\ ~synth_log[j].success

\* The pairs list holds a pair made of clips of item k
HasPair(k) ==
    \E j \in 1..Len(run_audio_pairs) :
        \/ run_audio_pairs[j][1][2] = k - 1
        \/ run_audio_pairs[j][2][2] = k - 1

\* The clip files the dispatcher wrote in this run
WrittenClips ==
    {ClipPath(synth_log[j].lang, synth_log[j].item - 1) :
        j \in {n \in 1..Len(synth_log) : synth_log[n].success}}

\* C12: in the batch pipeline an item for which any language's synthesis
\* fails is excluded from the pairs list as a whole: a pair is in the list
\* only when synthesis succeeded for every language of its item.
C12_FailedItemExcluded ==
    \A k \in 1..Len(translations) :
        /\ HasPair(k) <=> (k < item_idx /\ ItemSynthesized(k))
        /\ ItemFailed(k) => ~HasPair(k)

C12_Witness ==
    /\ rpc = "returned"
    /\ run_result
    /\ Len(run_audio_pairs) = 1
    /\ \E k \in 1..Len(translations) :
          /\ ItemFailed(k)
          /\ Cardinality({p \in WrittenClips : p[2] = k - 1}) = 2

SuccessfulItems ==
    SelectSeq([k \in 1..Len(translations) |-> k], ItemSynthesized)

\* C13: the pairs list handed to the assembler holds the successful items in
\* item order, each as (clip of the item's first language, clip of the
\* item's second language).
C13_PairsInItemOrder ==
    rpc \in {"batch", "exit", "returned"} =>
        run_audio_pairs =
            [j \in 1..Len(SuccessfulItems) |->
                LET k == SuccessfulItems[j]
                IN  <<ClipPath(translations[k][1], k - 1),
                      ClipPath(translations[k][2], k - 1)>>]

C13_Witness ==
    /\ rpc = "exit"
    /\ run_log.batch_called
    /\ Len(run_audio_pairs) = 2
    /\ run_audio_pairs[1] = <<ClipPath("english", 0), ClipPath("finnish", 0)>>
    /\ run_audio_pairs[2] = <<ClipPath("finnish", 1), ClipPath("english", 1)>>

\* C14: the run returns success if and only if at least one pair was
\* produced and both combine and export succeeded; with an empty pair list
\* the run fails without calling the assembler or the exporter and without
\* writing an output file.
C14_SuccessIff ==
    RunEnded =>
        /\ run_result <=> /\ Len(run_audio_pairs) >= 1
                          /\ run_log.combine_ok
                          /\ run_log.save_outcome = "ok"
        /\ run_audio_pairs = <<>> =>
              /\ ~run_log.batch_called
              /\ ~run_log.save_called
              /\ out_files = out_before

C14_Witness ==
    /\ rpc = "returned"
    /\ run_audio_pairs = <<>>
    /\ Len(synth_log) >= 2
    /\ ~run_result
    /\ out_files[timestamp] = "complete"

\* C15: at the end of a run the temporary clip files are deleted unless
\* keep_individual was requested; when it was requested the clip files still
\* exist after the run returns.
C15_ClipsRetained ==
    rpc = "returned" =>
        IF keep_individual THEN WrittenClips \subseteq tmp_files
        ELSE tmp_files = {}

\* C16: if a run fails before export completes, every file exported by a
\* previous run is left unchanged.
C16_PreviousExportsUntouched ==
    (RunEnded /\ ~run_result) =>
        \A t \in Timestamps :
            out_before[t] = "complete" => out_files[t] = "complete"

\* C17: the exporter reports success only when the write completed: any
\* error in directory creation, resampling or serialization makes
\* _save_audio return false without raising, and that failure is the result
\* of process_translation_batch and of the run.
C17_ExportFailureSurfaced ==
    run_log.save_called =>
        /\ rpc # "raised"
        /\ run_log.save_result = (IF run_log.save_outcome = "ok" THEN "true" ELSE "false")
        /\ run_log.batch_success = run_log.save_result
        /\ RunEnded => (run_result <=> run_log.save_outcome = "ok")

C17_Witness ==
    /\ rpc = "returned"
    /\ run_log.save_called
    /\ run_log.save_outcome = "resample_error"
    /\ run_log.batch_success = "false"
    /\ ~run_result

-----------------------------------------------------------------------------
(* The backends *)

\* C18: get_default_voice(language) returns the configured voice when it is
\* in get_voices(language), otherwise the first entry of
\* get_voices(language), and none exactly when get_voices(language) is empty.
C18_DefaultVoice ==
    (e_query.engine # "" /\ ~e_query.raised) =>
        LET configured_listed ==
                /\ e_query.configured # NoVoice
                /\ e_query.configured \in SeqRange(e_query.voices)
        IN  /\ configured_listed => e_query.returned = e_query.configured
            /\ (~configured_listed /\ e_query.voices # <<>>) =>
                   e_query.returned = e_query.voices[1]
            /\ e_query.returned = NoVoice <=> e_query.voices = <<>>

C18_Witness ==
    /\ e_query.engine = "coqui"
    /\ e_query.configured = "fi-a"
    /\ e_query.voices = <<"multi", "fi-a">>
    /\ e_query.returned = "fi-a"

\* get_voices of the call's backend returned an empty list
CatalogEmpty ==
    LET available_voices ==
            get_voices(e_call.engine, e_call.env.catalog, e_call.language)
    IN  ~available_voices.raised /\ available_voices.voices = <<>>

\* C19: with no explicit voice and an empty voice catalog for the language,
\* generate_speech returns false without attempting synthesis: no synthesis
\* call is issued and no output file is written.
C19_NoVoiceNoSynthesis ==
    (e_call.engine # "" /\ e_call.voice = NoVoice /\ CatalogEmpty) =>
        /\ e_outcome = "false"
        /\ ~e_synth
        /\ e_files = {}

C19_Witness ==
    /\ e_call.engine = "edge-tts"
    /\ e_call.voice = NoVoice
    /\ e_call.language = "fi"
    /\ Len(e_call.env.catalog.entries) = 2
    /\ CatalogEmpty
    /\ e_call.env.mkdir
    /\ e_call.env.synth = "ok"
    /\ e_outcome = "false"
    /\ ~e_synth

\* C20: every backend's generate_speech returns false and never raises on
\* any failure, a failing voice-catalog lookup and a failure to create the
\* destination's parent directory included.
C20_NeverRaises == e_outcome # "raise"

\* C21: get_voices(language) of every backend never fails: when the catalog
\* lookup errors it returns an empty list instead of raising.
C21_GetVoicesNeverFails ==
    e_query.engine # "" =>
        /\ ~e_query.raised
        /\ e_query.catalog.error => e_query.voices = <<>>

\* C22: the intermediate WAV file that generate_speech of the Coqui backend
\* writes does not exist any more when the call returns, on every exit path:
\* success, synthesis failure, decode failure and transcode failure.
C22_IntermediateRemoved ==
    (e_call.engine = "coqui" /\ e_synth /\ ~e_call.env.dest_wav) =>
        WavPath \notin e_files

\* C23: whenever generate_speech returns true an audio file exists at the
\* destination path when the call returns, for every destination path, one
\* whose suffix is .wav included.
C23_TrueMeansFile ==
    e_outcome = "true" => DestPath(e_call.env) \in e_files

\* The voice's locale equals the language code or is the language code with
\* a region
LocaleMatches(language, entry) == entry.lang = language

\* C24: get_voices(language) returns, in catalog order, exactly the voices
\* whose locale equals the language code or is a region-qualified locale
\* with the language code as prefix, and no other voices.
C24_ExactlyMatchingVoices ==
    (e_query.engine \in {"edge-tts", "piper", "coqui"} /\ ~e_query.raised
                                                     /\ ~e_query.catalog.error) =>
        LET Match(v) == LocaleMatches(e_query.language, v)
        IN  e_query.voices = Names(SelectSeq(e_query.catalog.entries, Match))

-----------------------------------------------------------------------------
(* Translation items *)

\* The text is empty once the whitespace around it is trimmed
Blank(text) == \A k \in 1..Len(text) : text[k] = " "

\* C25: every Translation Item that is constructed has at least two language
\* fields and every value non-empty after trimming whitespace; constructing
\* an item that violates either condition fails with an error and yields no
\* item.
C25_ItemInvariant ==
    t_pc = "done" =>
        /\ t_item.some =>
              /\ Len(t_item.fields) >= 2
              /\ \A k \in 1..Len(t_item.fields) :
                    ~t_item.fields[k].none /\ ~Blank(t_item.fields[k].text)
        /\ (\/ Len(t_data) < 2
            \/ \E k \in 1..Len(t_data) : t_data[k].none \/ Blank(t_data[k].text)) =>
              t_raised /\ ~t_item.some

C25_Witness ==
    /\ t_pc = "done"
    /\ Len(t_data) = 3
    /\ t_data[1].text = <<" ", "a">>
    /\ t_data[2].text = <<"a">>
    /\ t_data[3].text = <<" ", " ">>
    /\ t_raised
    /\ ~t_item.some

-----------------------------------------------------------------------------
(* The exporter *)

-----------------------------------------------------------------------------
(* The batch pipeline, continued *)

\* The items for which synthesis was requested, in the order of the requests
AttemptedItems == Dedup([j \in 1..Len(synth_log) |-> synth_log[j].item])

\* C27: a failed item does not abort the batch: the pipeline attempts every
\* item of the list, one at a time and in source order, however many earlier
\* items failed, and only then decides overall success.
C27_EveryItemAttempted ==
    /\ rpc \in {"batch", "exit", "returned"} =>
          AttemptedItems = [k \in 1..Len(translations) |-> k]
    /\ rpc = "synth" =>
          /\ AttemptedItems = [k \in 1..Len(AttemptedItems) |-> k]
          /\ ~run_result
          /\ ~run_log.batch_called

C27_Witness ==
    /\ rpc = "returned"
    /\ Len(translations) = 2
    /\ ItemFailed(1)
    /\ ItemSynthesized(2)
    /\ run_result

\* process_translation_batch has returned
BatchEnded == rpc = "exit" /\ run_log.batch_called

-----------------------------------------------------------------------------
(* The assembler, continued *)

\* The file decodes to a clip of zero duration
ZeroClip(st) == st.exists /\ st.decodes /\ st.ms = 0

\* C29: a clip that loads but has zero duration is treated by
\* _combine_translation_pair like a load failure: the pair is rejected and
\* contributes nothing to the batch.
C29_ZeroClipRejected ==
    /\ \A k \in 1..Len(pair_call) :
          (ZeroClip(pair_call[k].main) \/ ZeroClip(pair_call[k].second)) =>
              pair_call[k].result = None
    /\ \A k \in 1..Len(pair_results) :
          (ZeroClip(pair_log[k].main) \/ ZeroClip(pair_log[k].second)) =>
              /\ ~pair_results[k].some
              /\ \A j \in 1..Len(combined) : combined[j].path[2] # k
              /\ BatchReturned =>
                    \A j \in 1..Len(batch_result.audio) :
                        batch_result.audio[j].path[2] # k

C29_Witness ==
    /\ BatchReturned
    /\ Len(audio_pairs) = 3
    /\ ZeroClip(pair_log[2].main)
    /\ Loadable(pair_log[2].second) /\ pair_log[2].second.ms = 700
    /\ pair_results[1].some
    /\ pair_results[3].some
    /\ batch_result.some

-----------------------------------------------------------------------------
(* The dispatcher, continued *)

\* C30: within one generate_with_fallback call each backend's
\* generate_speech is invoked at most once, even when the same name is the
\* preferred backend, the configured default, and appears more than once in
\* the configured fallback order.
C30_AtMostOnce ==
    \A i, j \in 1..Len(attempts) :
        i # j => attempts[i].engine # attempts[j].engine

C30_Witness ==
    /\ pc = "returned"
    /\ preferred_engine = "gtts"
    /\ default_engine = "gtts"
    /\ fallback_order = <<"gtts", "gtts">>
    /\ Len(attempts) >= 2
    /\ attempts[1].engine = "gtts"
    /\ AllFailed
    /\ ~result

====
